---- MODULE Spec2Model ----
(***************************************************************************)
(* Model of elasticsearch_async.helpers._Scan (the asynchronous scan       *)
(* helper): the cursor's buffer and scroll id, the three remote calls it   *)
(* issues (search, scroll, clear_scroll) against a server that holds a     *)
(* scroll context, and the consumers that drive __anext__.                 *)
(*                                                                         *)
(* A coroutine runs atomically between two awaits, so __anext__ is split   *)
(* exactly at its awaits: the step that issues a remote call, and the step *)
(* that resumes on the call's response (or on its transport failure) and   *)
(* runs up to the next await or to the end of __anext__.                   *)
(***************************************************************************)
EXTENDS Integers, Sequences, FiniteSets, TLC

\* ---------------------------------------------------------------- bounds
MaxDocs  == 3   \* documents the index may hold
MaxSize  == 2   \* batch sizes tried
MaxCalls == 5   \* __anext__ invocations per behaviour
MaxTok   == 2   \* distinct scroll ids the server hands out

\* ------------------------------------------------------------- constants
None == 0                   \* self._scroll_id = None
Procs == {1}                \* consumers of the cursor
Docs == 1..MaxDocs          \* document ids
Tokens == 1..MaxTok         \* scroll ids
\* query bodies the caller passes; a mapping is the set of its <<key, value>>
\* pairs, the default query=None is the empty mapping (query or {})
Queries == { {},
             {<<"query", "match_all">>, <<"sort", "_score">>} }

VARIABLES
    preserve_order,   \* the preserve_order argument of __init__
    argQuery,         \* the query mapping as the caller passed it
    callerQuery,      \* the caller's query mapping after construction
    query,            \* self.query
    raise_on_error,   \* self.raise_on_error
    clear_scroll,     \* self.clear_scroll
    size,             \* self.size
    _hits,            \* self._hits, the buffer (front = left)
    _scroll_id,       \* self._scroll_id, None or a token
    srvDocs,          \* number of documents indexed (ids 1..srvDocs)
    srvPos,           \* documents the scroll context has already returned
    srvActive,        \* the scroll context exists on the server
    srvTok,           \* newest scroll id the server handed out
    warnings,         \* calls of logger.warning
    pc,               \* per consumer: where its __anext__ is suspended
    req,              \* per consumer: index in calls of its outstanding call
    pending,          \* per consumer: what __anext__ delivers once _clear returns
    calls,            \* every remote call issued, in order, with its outcome
    out               \* what each completed __anext__ delivered, in order

cfg    == <<preserve_order, argQuery, callerQuery, query,
            raise_on_error, clear_scroll, size>>
cursor == <<_hits, _scroll_id>>
server == <<srvDocs, srvPos, srvActive, srvTok>>
vars   == <<preserve_order, argQuery, callerQuery, query,
            raise_on_error, clear_scroll, size, _hits, _scroll_id, srvDocs,
            srvPos, srvActive, srvTok, warnings, pc, req, pending, calls, out>>

\* ------------------------------------------------------------- helpers
Min(a, b) == IF a < b THEN a ELSE b

\* d[k] = v on a mapping
DictSet(d, k, v) == {e \in d : e[1] # k} \cup {<<k, v>>}

\* a constructor that adds the sort only when the caller gave none
SelfQuerySetDefault(q, po) ==
    IF po \/ (\E e \in q : e[1] = "sort") THEN q ELSE DictSet(q, "sort", "_doc")

\* __init__, lines 70-73: the value of self.query
SelfQuery(q, po) == IF po THEN q ELSE DictSet(q, "sort", "_doc")

\* __init__, lines 70-73: the caller's mapping after construction; the
\* assignment of line 73 goes to the copy made at line 72
CallerQueryAfter(q, po) == q

\* a remote call: op, the scroll id it carries, the body of a search, and
\* (once answered) its outcome: st, number of hits n, shard failure sf,
\* returned scroll id rtok
Call(op, tok) ==
    [op |-> op, tok |-> tok, body |-> {}, st |-> "pending", n |-> 0,
     sf |-> FALSE, rtok |-> None]

\* what one __anext__ delivered: kind is "hit", "StopAsyncIteration",
\* "ScanError" or "TransportError"; nc = remote calls issued so far
Result(kind, doc, tok, nc) ==
    [kind |-> kind, doc |-> doc, tok |-> tok, nc |-> nc]

\* the server's next batch: ids pos+1 .. min(pos+size, n)
Batch(pos, sz, n) == [i \in 1..(Min(pos + sz, n) - pos) |-> pos + i]

\* the shard counts the server reports (failing_shard: successful - 1)
Shards(sf) == [successful |-> IF sf THEN 0 ELSE 1, total |-> 1]

\* a fetch that forgets the recorded scroll id and searches again
FetchOpAlwaysSearch(sid) == "search"

\* _fetch, line 109: which primitive is called
FetchOp(sid) == IF sid = None THEN "search" ELSE "scroll"

\* _fetch, lines 110-121: the call _fetch issues
FetchCall(sid) ==
    [Call(FetchOp(sid), sid) EXCEPT
        !.body = IF FetchOp(sid) = "search" THEN query ELSE {}]

\* a fetch that raises on a failed shard whatever raise_on_error is
ShouldRaiseAlways(shards) == shards.successful < shards.total

\* _fetch, line 125 and 129: is ScanError raised
ShouldRaise(shards) == shards.successful < shards.total /\ raise_on_error

\* a fetch that uses deque.extendleft: the batch enters reversed, at the front
ExtendLeft(hits, batch) ==
    [i \in 1..Len(batch) |-> batch[Len(batch) + 1 - i]] \o hits

\* a fetch that keeps the first scroll id it was given
RecordTokenKeepFirst(old, rtok) == IF old = None THEN rtok ELSE old

\* _fetch, line 123: the scroll id recorded from a response
RecordToken(old, rtok) == rtok

\* a fetch that loses the first hit of each batch
ExtendDropFirst(hits, batch) == hits \o SubSeq(batch, 2, Len(batch))

\* _fetch, line 135
Extend(hits, batch) == hits \o batch

\* a fetch that appends the batch before it decides to raise
FetchedHitsBufferFirst(raises, hits, batch) == Extend(hits, batch)

\* _fetch, lines 129-135: the buffer as _fetch leaves it; the raise of line
\* 130 leaves _fetch before the extend of line 135
FetchedHits(raises, hits, batch) == IF raises THEN hits ELSE Extend(hits, batch)

\* an except clause that catches every exception
CaughtAny(exc) == TRUE

\* __anext__, line 98: the except clause
Caught(exc) == exc = "ScanError"

\* a release that ignores clear_scroll
MustClearNoFlag(sid) == sid # None

\* a release with the test of the scroll id inverted
MustClearInverted(sid) == sid = None /\ clear_scroll

\* _clear, line 89
MustClear(sid) == sid # None /\ clear_scroll

Started == Len(out) + Cardinality({p \in DOMAIN pc : pc[p] # "idle"})

\* ------------------------------------------------------------------ Init
\* a cursor constructed with the default query (query=None,
\* preserve_order=False) and any flags and batch size
Init ==
    /\ preserve_order = FALSE
    /\ argQuery = {}
    /\ callerQuery = CallerQueryAfter(argQuery, preserve_order)
    /\ query = SelfQuery(argQuery, preserve_order)
    /\ raise_on_error \in BOOLEAN
    /\ clear_scroll \in BOOLEAN
    /\ size \in 1..MaxSize
    /\ _hits = <<>>
    /\ _scroll_id = None
    /\ srvDocs \in 0..MaxDocs
    /\ srvPos = 0
    /\ srvActive = FALSE
    /\ srvTok = None
    /\ warnings = 0
    /\ pc = [p \in Procs |-> "idle"]
    /\ req = [p \in Procs |-> 0]
    /\ pending = [p \in Procs |-> Result("none", 0, None, 0)]
    /\ calls = <<>>
    /\ out = <<>>

\* --------------------------------------------------------------- actions
\* an __anext__ that schedules _clear (ensure_future) instead of awaiting it:
\* the clear-scroll call is issued and the signal is delivered at once
ResumeClearNotAwaited(p, exc, sid, hits, calls1) ==
    LET signal  == IF exc = "none" THEN "StopAsyncIteration" ELSE exc
        yields  == exc = "none" /\ hits # <<>>
        clears  == /\ ~yields
                   /\ (exc = "none" \/ exc = "ScanError")
                   /\ sid # None /\ clear_scroll
        etok    == IF exc = "ScanError" THEN sid ELSE None
        calls2  == IF clears THEN Append(calls1, Call("clear", sid)) ELSE calls1
    IN  /\ _scroll_id' = sid
        /\ _hits' = IF yields THEN Tail(hits) ELSE hits
        /\ calls' = calls2
        /\ pc' = [pc EXCEPT ![p] = "idle"]
        /\ req' = [req EXCEPT ![p] = 0]
        /\ pending' = pending
        /\ out' = Append(out,
               IF yields THEN Result("hit", Head(hits), None, Len(calls2))
               ELSE Result(signal, 0, etok, Len(calls2)))

\* The rest of __anext__ after _fetch returned or raised exc, with the
\* scroll id sid and the buffer hits as _fetch left them, and calls1 the
\* call log with the fetch's outcome filled in.
Resume(p, exc, sid, hits, calls1) ==
    LET signal  == IF exc = "none" THEN "StopAsyncIteration" ELSE exc
        yields  == exc = "none" /\ hits # <<>>
        clears  == /\ ~yields
                   /\ (exc = "none" \/ Caught(exc))
                   /\ MustClear(sid)
        etok    == IF exc = "ScanError" THEN sid ELSE None
    IN  /\ _scroll_id' = sid
        /\ _hits' = IF yields THEN Tail(hits) ELSE hits
        /\ IF clears
           THEN /\ calls' = Append(calls1, Call("clear", sid))
                /\ pc' = [pc EXCEPT ![p] = "clearing"]
                /\ req' = [req EXCEPT ![p] = Len(calls1) + 1]
                /\ pending' = [pending EXCEPT ![p] = Result(signal, 0, etok, 0)]
                /\ out' = out
           ELSE /\ calls' = calls1
                /\ pc' = [pc EXCEPT ![p] = "idle"]
                /\ req' = [req EXCEPT ![p] = 0]
                /\ pending' = pending
                /\ out' = Append(out,
                       IF yields THEN Result("hit", Head(hits), None, Len(calls1))
                       ELSE Result(signal, 0, etok, Len(calls1)))

\* __anext__ with a non-empty buffer: no await, pops the front
AnextBuffered(p) ==
    /\ pc[p] = "idle"
    /\ Started < MaxCalls
    /\ _hits # <<>>
    /\ Resume(p, "none", _scroll_id, _hits, calls)
    /\ UNCHANGED <<cfg, server, warnings>>

\* an __anext__ that takes a lock: it does not start a fetch while another
\* __anext__ of the same cursor is suspended
AnextFetchLocked(p) ==
    /\ \A q \in DOMAIN pc : pc[q] = "idle"
    /\ Started < MaxCalls
    /\ _hits = <<>>
    /\ calls' = Append(calls, FetchCall(_scroll_id))
    /\ pc' = [pc EXCEPT ![p] = "fetching"]
    /\ req' = [req EXCEPT ![p] = Len(calls) + 1]
    /\ UNCHANGED <<cfg, cursor, server, warnings, pending, out>>

\* __anext__ with an empty buffer: _fetch issues search or scroll and awaits
AnextFetch(p) ==
    /\ pc[p] = "idle"
    /\ Started < MaxCalls
    /\ _hits = <<>>
    /\ calls' = Append(calls, FetchCall(_scroll_id))
    /\ pc' = [pc EXCEPT ![p] = "fetching"]
    /\ req' = [req EXCEPT ![p] = Len(calls) + 1]
    /\ UNCHANGED <<cfg, cursor, server, warnings, pending, out>>

\* the search or scroll call returns a response; _fetch and __anext__ run on
FetchReturn(p) ==
    /\ pc[p] = "fetching"
    /\ calls[req[p]].op = "scroll" => srvActive
    /\ \E sf \in BOOLEAN, rot \in BOOLEAN :
        LET c      == calls[req[p]]
            pos    == IF c.op = "search" THEN 0 ELSE srvPos
            batch  == Batch(pos, size, srvDocs)
            rtok   == IF (c.op = "search" \/ rot) /\ srvTok < MaxTok
                      THEN srvTok + 1
                      ELSE srvTok
            shards == Shards(sf)
            warn   == shards.successful < shards.total
            raises == ShouldRaise(shards)
            calls1 == [calls EXCEPT ![req[p]] =
                         [c EXCEPT !.st = "ok", !.n = Len(batch),
                                   !.sf = warn, !.rtok = rtok]]
        IN  /\ rtok # None
            /\ srvPos' = pos + Len(batch)
            /\ srvActive' = TRUE
            /\ srvTok' = rtok
            /\ warnings' = IF warn THEN warnings + 1 ELSE warnings
            /\ Resume(p, IF raises THEN "ScanError" ELSE "none",
                      RecordToken(_scroll_id, rtok),
                      FetchedHits(raises, _hits, batch), calls1)
    /\ UNCHANGED <<cfg, srvDocs>>

\* the search or scroll call raises a transport failure (a scroll on a
\* context that no longer exists always does: 404); a failed scroll may or
\* may not have advanced the context
FetchFail(p) ==
    /\ pc[p] = "fetching"
    /\ \E eff \in BOOLEAN :
        LET c      == calls[req[p]]
            adv    == eff /\ c.op = "scroll" /\ srvActive
            calls1 == [calls EXCEPT ![req[p]] = [c EXCEPT !.st = "err"]]
        IN  /\ eff => (c.op = "scroll" /\ srvActive /\ srvPos < srvDocs)
            /\ srvPos' = IF adv THEN srvPos + Len(Batch(srvPos, size, srvDocs))
                         ELSE srvPos
            /\ Resume(p, "TransportError", _scroll_id, _hits, calls1)
    /\ UNCHANGED <<cfg, srvDocs, srvActive, srvTok, warnings>>

\* the clear_scroll call returns (a 404 is ignored); __anext__ re-raises
\* ScanError or raises StopAsyncIteration
ClearReturn(p) ==
    /\ pc[p] = "clearing"
    /\ srvActive' = FALSE
    /\ calls' = [calls EXCEPT ![req[p]] = [@ EXCEPT !.st = "ok"]]
    /\ out' = Append(out, [pending[p] EXCEPT !.nc = Len(calls)])
    /\ pc' = [pc EXCEPT ![p] = "idle"]
    /\ req' = [req EXCEPT ![p] = 0]
    /\ UNCHANGED <<cfg, cursor, srvDocs, srvPos, srvTok, warnings, pending>>

\* the clear_scroll call raises a transport failure other than 404: nothing
\* in _clear or __anext__ handles it, so it leaves __anext__
ClearFail(p) ==
    /\ pc[p] = "clearing"
    /\ \E eff \in BOOLEAN :
        /\ eff => srvActive
        /\ srvActive' = IF eff THEN FALSE ELSE srvActive
    /\ calls' = [calls EXCEPT ![req[p]] = [@ EXCEPT !.st = "err"]]
    /\ out' = Append(out, Result("TransportError", 0, None, Len(calls)))
    /\ pc' = [pc EXCEPT ![p] = "idle"]
    /\ req' = [req EXCEPT ![p] = 0]
    /\ UNCHANGED <<cfg, cursor, srvDocs, srvPos, srvTok, warnings, pending>>

Next ==
    \E p \in Procs :
        \/ AnextBuffered(p)
        \/ AnextFetch(p)
        \/ FetchReturn(p)
        \/ FetchFail(p)
        \/ ClearReturn(p)
        \/ ClearFail(p)

Spec == Init /\ [][Next]_vars

\* --------------------------------------------------------------- typing
TypeOK ==
    /\ raise_on_error \in BOOLEAN
    /\ clear_scroll \in BOOLEAN
    /\ size \in 1..MaxSize
    /\ _scroll_id \in {None} \cup Tokens
    /\ \A i \in 1..Len(_hits) : _hits[i] \in Docs
    /\ srvPos \in 0..srvDocs
    /\ \A p \in Procs : pc[p] \in {"idle", "fetching", "clearing"}
    /\ Len(out) <= MaxCalls

\* ------------------------------------------------- history vocabulary
CallIdx == 1..Len(calls)
OutIdx == 1..Len(out)
Stop == "StopAsyncIteration"
IsFetch(c) == c.op \in {"search", "scroll"}
AllIdle == \A p \in Procs : pc[p] = "idle"
ClearCalls == {i \in CallIdx : calls[i].op = "clear"}
\* the documents yielded so far, in order
Yielded == SelectSeq(out, LAMBDA r : r.kind = "hit")
YieldedIds == {Yielded[i].doc : i \in 1..Len(Yielded)}
\* the last __anext__ delivered the first exhaustion signal
FirstExhausted ==
    /\ AllIdle
    /\ out # <<>>
    /\ out[Len(out)].kind = Stop
    /\ \A k \in 1..(Len(out) - 1) : out[k].kind # Stop
\* no fetch failed in transport and no response reported a failed shard
NoFetchError ==
    \A i \in CallIdx : IsFetch(calls[i]) => calls[i].st # "err" /\ ~calls[i].sf
\* no remote call at all failed
ErrFree == NoFetchError /\ \A i \in CallIdx : calls[i].st # "err"
DefaultSettings == raise_on_error /\ clear_scroll
\* a fetch had succeeded (a token was recorded) among the first n calls
TokenIssuedBy(n) == \E j \in 1..n : IsFetch(calls[j]) /\ calls[j].st = "ok"

\* ------------------------------------------------------------------- C1
\* what holds of the call log in every state of an error-free default scan:
\* only the first call is a search, and a clear-scroll directly follows a
\* fetch that returned zero hits
C1_Prefix ==
    /\ \A i \in CallIdx : calls[i].op = "search" <=> i = 1
    /\ \A i \in ClearCalls :
          /\ i > 1
          /\ IsFetch(calls[i - 1])
          /\ calls[i - 1].st = "ok"
          /\ calls[i - 1].n = 0
\* the call log at the first exhaustion signal, with at least minScrolls
\* scroll-continue calls
C1_Shape(minScrolls) ==
    LET n == Len(calls)
    IN  /\ n >= 2 + minScrolls
        /\ calls[1].op = "search"
        /\ \A i \in 2..(n - 1) : calls[i].op = "scroll"
        /\ calls[n].op = "clear"
        /\ \A i \in 1..(n - 2) : calls[i].n > 0
        /\ calls[n - 1].n = 0

\* C1 as stated: a default scan driven to the first exhaustion signal has
\* issued one search, then ONE OR MORE scroll-continue calls of which only
\* the last returned zero hits, then exactly one clear-scroll, nothing else.
C1_Original ==
    (DefaultSettings /\ ErrFree /\ FirstExhausted) => C1_Shape(1)

\* C1 amended: a default scan driven to the first exhaustion signal has
\* issued one search, then zero or more scroll-continue calls, the last
\* fetch (the search itself on an empty index) being the only one that
\* returned zero hits, then exactly one clear-scroll and nothing after it;
\* no clear-scroll is issued before the empty fetch response.
C1_CallSequence ==
    (DefaultSettings /\ ErrFree) =>
        /\ C1_Prefix
        /\ FirstExhausted => C1_Shape(0)

\* a default scan over several batches reached exhaustion (as in test_basic)
C1_Witness ==
    /\ DefaultSettings /\ ErrFree /\ FirstExhausted
    /\ Len(calls) >= 4
    /\ Len(Yielded) = srvDocs

\* ------------------------------------------------------------------- C2
\* C2: whatever the batch size and the number N of documents, when no fetch
\* fails and no shard fails, the records yielded up to the first exhaustion
\* signal are exactly N and their ids are exactly the indexed ids.
C2_AllRecordsOnce ==
    (NoFetchError /\ FirstExhausted) =>
        /\ Len(Yielded) = srvDocs
        /\ YieldedIds = 1..srvDocs

\* a scan of more documents than one batch holds reached exhaustion
C2_Witness ==
    /\ NoFetchError /\ FirstExhausted
    /\ srvDocs > size
    /\ size > 1
    /\ Len(Yielded) = srvDocs

\* ------------------------------------------------------------------- C3
\* C3 as stated: on a cursor with clear-on-finish true, every terminal
\* signal delivered after a token was issued (exhaustion, ScanError, or any
\* other error) is preceded by a clear-scroll call, and clear-scroll is
\* issued at most once over any sequence of produce-next calls.
C3_ClearedExactlyOnce ==
    clear_scroll =>
        /\ Cardinality(ClearCalls) <= 1
        /\ \A k \in OutIdx :
              (out[k].kind # "hit" /\ TokenIssuedBy(out[k].nc)) =>
                  \E j \in 1..out[k].nc : calls[j].op = "clear"

\* ------------------------------------------------------------------- C4
\* the first fetch whose response reported a failed shard
FirstShardFailure(j) ==
    /\ j \in CallIdx
    /\ calls[j].sf
    /\ \A i \in 1..(j - 1) : ~calls[i].sf
\* the __anext__ that issued call j has completed; its result is out[k]
ResultOfCall(j, k) ==
    /\ k \in OutIdx
    /\ out[k].nc >= j
    /\ \A h \in 1..(k - 1) : out[h].nc < j

\* C4 as stated (for a cursor with clear-on-finish true): with
\* raise-on-failure true the produce-next call that receives the first
\* response with successful < total raises ScanError carrying the token of
\* that response, a warning is logged, and clear-scroll was issued with
\* that token before the error reached the caller.
C4_ScanErrorRaised ==
    (raise_on_error /\ clear_scroll) =>
        \A j \in CallIdx : FirstShardFailure(j) =>
            /\ warnings >= 1
            /\ \A k \in OutIdx : ResultOfCall(j, k) =>
                  /\ out[k].kind = "ScanError"
                  /\ out[k].tok = calls[j].rtok
                  /\ calls[j + 1].op = "clear"
                  /\ calls[j + 1].tok = calls[j].rtok
                  /\ out[k].nc = j + 1

\* ------------------------------------------------------------------- C5
\* every fetch was answered, and every answer reported a failed shard
EveryFetchShardFailed ==
    \A i \in CallIdx : IsFetch(calls[i]) =>
        (calls[i].st = "pending" \/ (calls[i].st = "ok" /\ calls[i].sf))
\* what C5 promises, the clear-scroll at the end being required when needClear
C5_Body(needClear) ==
    /\ \A k \in OutIdx : out[k].kind # "ScanError"
    /\ FirstExhausted =>
          /\ Len(Yielded) = srvDocs
          /\ YieldedIds = 1..srvDocs
          /\ warnings >= 1
          /\ needClear => calls[Len(calls)].op = "clear"

\* C5 as stated: with raise-on-failure false and every fetch response
\* reporting successful < total, ScanError is never raised, all N records
\* are yielded before exhaustion, a warning was logged, and clear-scroll is
\* issued at the end of the scan (whatever clear-on-finish is).
C5_Original ==
    (~raise_on_error /\ EveryFetchShardFailed) => C5_Body(TRUE)

\* C5 amended: ... and, when clear-on-finish is true, clear-scroll is the
\* last call issued at the end of the scan.
C5_DegradesToWarning ==
    (~raise_on_error /\ EveryFetchShardFailed) => C5_Body(clear_scroll)

\* a scan of several failing batches reached exhaustion and was cleared
C5_Witness ==
    /\ ~raise_on_error /\ clear_scroll /\ EveryFetchShardFailed
    /\ FirstExhausted
    /\ srvDocs >= 2
    /\ warnings >= 2
    /\ calls[Len(calls)].op = "clear"

\* ------------------------------------------------------------------- C6
\* C6: clear-scroll is issued only with a recorded token and with
\* clear-on-finish true; with clear-on-finish false no clear-scroll is ever
\* issued and the server's scroll context outlives the scan; while no token
\* is recorded no clear-scroll has been issued.
C6_ClearOnlyWhenAsked ==
    /\ \A i \in ClearCalls : clear_scroll /\ calls[i].tok # None
    /\ ~clear_scroll =>
          /\ ClearCalls = {}
          /\ TokenIssuedBy(Len(calls)) => srvActive
    /\ _scroll_id = None => ClearCalls = {}

\* a full scan with clear-on-finish false left the context open
C6_Witness ==
    /\ ~clear_scroll
    /\ FirstExhausted
    /\ Len(Yielded) >= 1
    /\ _scroll_id # None
    /\ srvActive

\* ------------------------------------------------------------------- C7
\* C7 as stated: once produce-next has signalled exhaustion, every further
\* produce-next signals exhaustion again and no further remote call is
\* issued.
C7_ExhaustionIdempotent ==
    \A k \in OutIdx : out[k].kind = Stop =>
        /\ Len(calls) = out[k].nc
        /\ \A h \in (k + 1)..Len(out) : out[h].kind = Stop

\* ------------------------------------------------------------------- C8
\* C8 as stated: a transport failure of clear-scroll never reaches the
\* caller: the produce-next whose clear-scroll failed delivers ScanError
\* (release after a shard failure) or the exhaustion signal.
C8_ClearFailureSwallowed ==
    \A k \in OutIdx :
        (out[k].nc >= 1 /\ calls[out[k].nc].op = "clear"
                        /\ calls[out[k].nc].st = "err") =>
            out[k].kind \in {"ScanError", Stop}

\* ------------------------------------------------------------------- C9
\* C9: when the search or scroll-continue call of a produce-next fails in
\* transport, that produce-next delivers the transport error, issues no
\* clear-scroll (no further call at all), and leaves token and buffer as
\* they were.
C9_Step ==
    \A p \in Procs :
        (pc[p] = "fetching" /\ calls'[req[p]].st = "err") =>
            /\ out' = Append(out, Result("TransportError", 0, None, Len(calls)))
            /\ Len(calls') = Len(calls)
            /\ pc'[p] = "idle"
            /\ _scroll_id' = _scroll_id
            /\ _hits' = _hits
C10_SearchOnlyFirst ==
    /\ Started = 0 => calls = <<>>
    /\ calls # <<>> => calls[1].op = "search" /\ calls[1].tok = None
    /\ \A i \in CallIdx : (IsFetch(calls[i]) /\ calls[i].st = "ok") =>
          /\ _scroll_id # None
          /\ \A j \in (i + 1)..Len(calls) : calls[j].op # "search"

\* a successful search was followed by a scroll-continue
C10_Witness ==
    \E i, j \in CallIdx :
        /\ i < j
        /\ calls[i].op = "search" /\ calls[i].st = "ok"
        /\ calls[j].op = "scroll" /\ calls[j].tok = calls[i].rtok

\* ------------------------------------------------------------------ C11
\* a cursor constructed with any query and preserve_order, the flags at
\* their defaults
InitQuery ==
    /\ preserve_order \in BOOLEAN
    /\ argQuery \in Queries
    /\ callerQuery = CallerQueryAfter(argQuery, preserve_order)
    /\ query = SelfQuery(argQuery, preserve_order)
    /\ raise_on_error = TRUE
    /\ clear_scroll = TRUE
    /\ size \in 1..MaxSize
    /\ _hits = <<>>
    /\ _scroll_id = None
    /\ srvDocs \in 0..MaxDocs
    /\ srvPos = 0
    /\ srvActive = FALSE
    /\ srvTok = None
    /\ warnings = 0
    /\ pc = [p \in Procs |-> "idle"]
    /\ req = [p \in Procs |-> 0]
    /\ pending = [p \in Procs |-> Result("none", 0, None, 0)]
    /\ calls = <<>>
    /\ out = <<>>

SpecQuery == InitQuery /\ [][Next]_vars

SortEntries(d) == {e \in d : e[1] = "sort"}
Outstanding == {i \in CallIdx : calls[i].st = "pending"}
OutstandingFetches == {i \in Outstanding : IsFetch(calls[i])}
\* C12: with a single consumer the cursor has at most one remote call
\* outstanding: none between two produce-next calls, and during a
\* produce-next only the call that it is suspended on; a clear-scroll is
\* issued only after the fetch of the same produce-next has been answered.
C12_OneOutstanding ==
    /\ Cardinality(Outstanding) <= 1
    /\ \A p \in Procs :
          /\ pc[p] = "idle" => Outstanding = {}
          /\ pc[p] # "idle" => Outstanding = {req[p]}
          /\ pc[p] = "fetching" => IsFetch(calls[req[p]])
          /\ pc[p] = "clearing" => calls[req[p]].op = "clear"

\* a clear-scroll is outstanding after two answered fetches
C12_Witness ==
    /\ \E p \in Procs : pc[p] = "clearing"
    /\ Len(calls) >= 3
    /\ calls[Len(calls)].op = "clear"
    /\ calls[Len(calls)].st = "pending"

\* ------------------------------------------------------------------ C13
\* the ids yielded so far followed by the ids still buffered
YieldOrder == [i \in 1..Len(Yielded) |-> Yielded[i].doc] \o _hits
\* C13: records are yielded in the order the server returned them (the
\* server returns ids in increasing order, batch after batch): the ids
\* yielded so far, followed by the buffered ones, are strictly increasing.
C13_ServerOrder ==
    \A i, j \in 1..Len(YieldOrder) : i < j => YieldOrder[i] < YieldOrder[j]

\* records of a two-hit batch and of a later batch were yielded
C13_Witness ==
    /\ Len(Yielded) >= 3
    /\ \E i \in CallIdx : calls[i].op = "search" /\ calls[i].n = 2
    /\ \E i \in CallIdx : calls[i].op = "scroll" /\ calls[i].n >= 1

\* ------------------------------------------------------------------ C14
\* the answered fetches issued before call i
AnsweredBefore(i) == {j \in 1..(i - 1) : IsFetch(calls[j]) /\ calls[j].st = "ok"}
SetMax(S) == CHOOSE x \in S : \A y \in S : y <= x
\* C14: every scroll-continue and every clear-scroll call carries the token
\* returned by the most recent answered fetch before it, also the
\* clear-scroll issued after a response that reported a failed shard.
C14_NewestToken ==
    \A i \in CallIdx : calls[i].op \in {"scroll", "clear"} =>
        /\ AnsweredBefore(i) # {}
        /\ calls[i].tok = calls[SetMax(AnsweredBefore(i))].rtok

\* the server rotated the token in a response that reported a failed shard,
\* and the clear-scroll that followed carried the rotated token
C14_Witness ==
    \E i \in CallIdx :
        /\ i >= 3
        /\ calls[i].op = "clear"
        /\ calls[i - 1].op = "scroll" /\ calls[i - 1].sf
        /\ calls[i - 1].rtok # calls[i - 1].tok
        /\ calls[i].tok = calls[i - 1].rtok

\* ------------------------------------------------------------------ C15
FetchCalls == {i \in CallIdx : IsFetch(calls[i])}
\* the last produce-next has completed and delivered kind
LastDelivered(kind) == AllIdle /\ out # <<>> /\ out[Len(out)].kind = kind
\* the last produce-next performed a fetch (the last call but for a clear)
LastFetched ==
    /\ FetchCalls # {}
    /\ Len(out) >= 2 => out[Len(out) - 1].nc < SetMax(FetchCalls)

CallsOf(k) == ((IF k = 1 THEN 0 ELSE out[k - 1].nc) + 1)..out[k].nc
\* C16: exhaustion is signalled only by a produce-next that performed a
\* fetch which was answered with zero hits, and the buffer is empty when it
\* is signalled.
C16_ExhaustionOnlyOnEmptyFetch ==
    /\ \A k \in OutIdx : out[k].kind = Stop =>
          \E j \in CallsOf(k) :
              /\ IsFetch(calls[j])
              /\ calls[j].st = "ok"
              /\ calls[j].n = 0
    /\ LastDelivered(Stop) => _hits = <<>>

\* exhaustion was signalled after records had been yielded
C16_Witness ==
    /\ LastDelivered(Stop)
    /\ Len(Yielded) >= 2
    /\ calls[SetMax(FetchCalls)].op = "scroll"
    /\ calls[SetMax(FetchCalls)].n = 0

\* ------------------------------------------------------------------ C17
\* C17: with a single consumer the buffer is empty whenever a remote call is
\* outstanding (a call is issued only on an empty buffer, so every record
\* appended was yielded before the next call), and a non-empty buffer holds
\* records of the last answered fetch only, fewer than that batch had.
C17_CallOnlyOnEmptyBuffer ==
    /\ Outstanding # {} => _hits = <<>>
    /\ _hits # <<>> =>
          /\ calls # <<>>
          /\ IsFetch(calls[Len(calls)])
          /\ calls[Len(calls)].st = "ok"
          /\ Len(_hits) < calls[Len(calls)].n
          /\ calls[Len(calls)].n <= size

\* both records of a two-hit batch were yielded, then the next call issued
C17_Witness ==
    /\ Len(calls) = 2
    /\ calls[1].n = 2
    /\ calls[2].op = "scroll" /\ calls[2].st = "pending"
    /\ Len(Yielded) = 2
    /\ _hits = <<>>

\* ------------------------------------------------------------------ C18
\* A consumer that keeps calling produce-next while every remote call is
\* answered: no search, scroll or clear-scroll fails in transport, and each
\* enabled step is eventually taken.
NextLive ==
    \E p \in Procs :
        \/ AnextBuffered(p)
        \/ AnextFetch(p)
        \/ FetchReturn(p)
        \/ ClearReturn(p)

SpecLive == Init /\ [][NextLive]_vars /\ WF_vars(NextLive)

HasStop == \E k \in OutIdx : out[k].kind = Stop
\* a response reported a failed shard on a cursor that raises for it
RaisedShardFailure == raise_on_error /\ \E i \in CallIdx : calls[i].sf
\* C18: when every remote call is answered (the server returning at least
\* one hit per fetch while documents remain, zero afterwards) and no
\* ScanError is raised, the consumer eventually receives the exhaustion
\* signal, after at most srvDocs + 1 fetches.
C18_EventuallyExhausted ==
    /\ [](FirstExhausted /\ ~RaisedShardFailure =>
              Cardinality(FetchCalls) <= srvDocs + 1)
    /\ <>(HasStop \/ RaisedShardFailure)

\* a scan of three documents, one per batch, reached exhaustion
C18_Witness ==
    /\ FirstExhausted
    /\ ~RaisedShardFailure
    /\ srvDocs >= 3
    /\ size = 1
    /\ Cardinality(FetchCalls) = srvDocs + 1

\* ------------------------------------------------------------------ C19
\* Two consumers drive the same cursor and their produce-next calls
\* interleave at the awaits; the cursor is constructed with the default
\* arguments but for the batch size, and every remote call is answered.
Consumers == {1, 2}

InitConc ==
    /\ preserve_order = FALSE
    /\ argQuery = {}
    /\ callerQuery = CallerQueryAfter(argQuery, preserve_order)
    /\ query = SelfQuery(argQuery, preserve_order)
    /\ raise_on_error = TRUE
    /\ clear_scroll = TRUE
    /\ size \in 1..MaxSize
    /\ _hits = <<>>
    /\ _scroll_id = None
    /\ srvDocs \in 0..MaxDocs
    /\ srvPos = 0
    /\ srvActive = FALSE
    /\ srvTok = None
    /\ warnings = 0
    /\ pc = [p \in Consumers |-> "idle"]
    /\ req = [p \in Consumers |-> 0]
    /\ pending = [p \in Consumers |-> Result("none", 0, None, 0)]
    /\ calls = <<>>
    /\ out = <<>>

NextConc ==
    \E p \in Consumers :
        \/ AnextBuffered(p)
        \/ AnextFetch(p)
        \/ FetchReturn(p)
        \/ ClearReturn(p)

SpecConc == InitConc /\ [][NextConc]_vars

\* both consumers have a fetch outstanding
BothFetching == \A p \in Consumers : pc[p] = "fetching"
\* C19: nothing in the cursor keeps a second produce-next from fetching
\* while the first is suspended: an idle consumer that finds the buffer
\* empty can always issue its fetch, whatever the other consumer is doing,
\* and every suspended produce-next has a remote call of its own
\* outstanding; the state with two fetches outstanding for the same session
\* is C19_Witness.
C19_NoProtection ==
    /\ \A p \in Consumers :
          (pc[p] = "idle" /\ _hits = <<>> /\ Started < MaxCalls) =>
              ENABLED AnextFetch(p)
    /\ Cardinality(Outstanding) = Cardinality({p \in Consumers : pc[p] # "idle"})
    /\ BothFetching => OutstandingFetches = {req[1], req[2]} /\ req[1] # req[2]

\* both consumers have a fetch outstanding for the same session: the same
\* token (two scroll-continue calls) or none (two initial searches)
C19_Witness ==
    /\ BothFetching
    /\ calls[req[1]].op = calls[req[2]].op
    /\ calls[req[1]].tok = calls[req[2]].tok
    /\ calls[req[1]].tok = _scroll_id

====
